---- MODULE Spec2Model ----
(***************************************************************************)
(* Model of src/commands/cities.js: the "cities" command, which clusters   *)
(* the end points of the recorded moves, ranks the clusters, resolves a    *)
(* label for each, and lays the surviving clusters out as square tiles.    *)
(*                                                                         *)
(* Conventions.  Text is a sequence of one-character strings, so that      *)
(* toLowerCase, indexOf and join are computed and not assumed.  Sequences  *)
(* are 1-based here where the JavaScript arrays are 0-based: the point     *)
(* index k of the clustering library is k + 1 in `groups`; tile indices    *)
(* keep the 0-based values of the code.  Coordinates are naturals on a     *)
(* small grid.                                                             *)
(***************************************************************************)
EXTENDS Integers, Sequences, FiniteSets, TLC

VARIABLES
    pc,             \* position of exports.handler
    segments,       \* the handler's `segments`
    options,        \* the parsed command line
    dataset,        \* clusterLocations' `dataset`
    groups,         \* clusterLocations' `clusters`: what dbscan.run returned
    controlPoints,  \* the handler's `controlPoints`
    pending,        \* sorted clusters whose label is not resolved yet
    ranked,         \* the labelled clusters, sorted: `clusters` at line 45
    clusters,       \* the handler's `clusters` after filter and take
    squares         \* the squares handed to drawMapAtSquare, in order

vars == <<pc, segments, options, dataset, groups, controlPoints, pending,
          ranked, clusters, squares>>

(***************************************************************************)
(* Bounds of the checked instances.                                        *)
(***************************************************************************)
MaxLat == 8        \* trips visit latitudes 0..MaxLat
MaxStride == 3     \* visiting orders of a trip
MaxEps == 2        \* cluster-epsilon in 1..MaxEps
MaxMinPts == 4     \* min-points in 1..MaxMinPts
MaxSegs == 2       \* segments of a free-form storyline
MaxTrack == 3      \* track points of a free-form segment
MaxCount == 8      \* clusters handed to the layout
MaxSide == 6       \* canvas height and width in 1..MaxSide
MaxLimit == 3      \* --limit in 0..MaxLimit
MaxTown == 5       \* the handler's trips visit latitudes 0..MaxTown

(***************************************************************************)
(* Small helpers.                                                          *)
(***************************************************************************)
Abs(n) == IF n < 0 THEN -n ELSE n

Min(a, b) == IF a < b THEN a ELSE b

Range(s) == {s[i] : i \in DOMAIN s}

RECURSIVE SeqsUpTo(_, _)
SeqsUpTo(S, n) ==
    IF n = 0 THEN {<<>>}
    ELSE LET shorter == SeqsUpTo(S, n - 1)
         IN  shorter \cup {Append(s, x) : s \in {t \in shorter : Len(t) = n - 1}, x \in S}

RECURSIVE Flatten(_)
Flatten(ss) == IF ss = <<>> THEN <<>> ELSE Head(ss) \o Flatten(Tail(ss))

(***************************************************************************)
(* Number and text conversions of the JavaScript runtime.                  *)
(***************************************************************************)
Digit(d) == CASE d = 0 -> "0" [] d = 1 -> "1" [] d = 2 -> "2" [] d = 3 -> "3"
              [] d = 4 -> "4" [] d = 5 -> "5" [] d = 6 -> "6" [] d = 7 -> "7"
              [] d = 8 -> "8" [] d = 9 -> "9"

\* String(n) for a natural n: its decimal digits.
RECURSIVE numberToString(_)
numberToString(n) ==
    IF n < 10 THEN <<Digit(n)>> ELSE Append(numberToString(n \div 10), Digit(n % 10))

\* Array.prototype.join: the parts with the separator between them.
RECURSIVE join(_, _)
join(parts, sep) ==
    IF parts = <<>> THEN <<>>
    ELSE IF Len(parts) = 1 THEN parts[1]
    ELSE parts[1] \o sep \o join(Tail(parts), sep)

\* String.prototype.toLowerCase on the alphabet of the model.
lowerChar(c) == CASE c = "A" -> "a" [] c = "B" -> "b" [] OTHER -> c

toLowerCase(s) == [i \in DOMAIN s |-> lowerChar(s[i])]

\* String.prototype.indexOf: the 0-based offset of the first occurrence, or -1.
indexOf(s, t) ==
    LET hits == {o \in 0..(Len(s) - Len(t)) :
                    \A i \in 1..Len(t) : s[o + i] = t[i]}
    IN  IF hits = {} THEN -1 ELSE CHOOSE o \in hits : \A q \in hits : o <= q

(***************************************************************************)
(* The clustering library (density-clustering's DBSCAN) and the distance   *)
(* function, as section 4.1 and 4.2 of the specification describe them.    *)
(***************************************************************************)
\* A metric on the grid: symmetric, zero exactly between equal points.
distance(a, b) == Abs(a.lat - b.lat) + Abs(a.lon - b.lon)

\* The neighbourhood of point p: every q, p included, within epsilon, in
\* Dataset order.
regionQuery(ds, p, eps) ==
    LET near(q) == distance(ds[p], ds[q]) <= eps
    IN  SelectSeq([q \in 1..Len(ds) |-> q], near)

\* b's elements that a lacks, appended to a.
mergeArrays(a, b) ==
    LET isNew(x) == \A i \in 1..Len(a) : a[i] # x
    IN  a \o SelectSeq(b, isNew)

\* Breadth-first growth of one cluster along `neighbors`, from position i.
\* st = [visited, assigned, cluster].
RECURSIVE expandCluster(_, _, _, _, _, _)
expandCluster(ds, eps, minPts, neighbors, i, st) ==
    IF i > Len(neighbors) THEN st
    ELSE LET p2 == neighbors[i]
             neighbors2 == regionQuery(ds, p2, eps)
             grown == IF p2 \notin st.visited /\ Len(neighbors2) >= minPts
                      THEN mergeArrays(neighbors, neighbors2)
                      ELSE neighbors
         IN  expandCluster(ds, eps, minPts, grown, i + 1,
                 [visited  |-> st.visited \cup {p2},
                  assigned |-> st.assigned \cup {p2},
                  cluster  |-> IF p2 \in st.assigned THEN st.cluster
                               ELSE Append(st.cluster, p2)])

\* The scan over the Dataset in its order, from point p.
\* st = [visited, assigned, clusters].
RECURSIVE dbscanFrom(_, _, _, _, _)
dbscanFrom(ds, eps, minPts, p, st) ==
    IF p > Len(ds) THEN st.clusters
    ELSE IF p \in st.visited THEN dbscanFrom(ds, eps, minPts, p + 1, st)
    ELSE LET neighbors == regionQuery(ds, p, eps)
         IN  IF Len(neighbors) < minPts
             THEN dbscanFrom(ds, eps, minPts, p + 1,
                      [st EXCEPT !.visited = @ \cup {p}])
             ELSE LET e == expandCluster(ds, eps, minPts, neighbors, 1,
                               [visited  |-> st.visited \cup {p},
                                assigned |-> st.assigned \cup {p},
                                cluster  |-> <<p>>])
                  IN  dbscanFrom(ds, eps, minPts, p + 1,
                          [visited  |-> e.visited,
                           assigned |-> e.assigned,
                           clusters |-> Append(st.clusters, e.cluster)])

dbscanRun(ds, eps, minPts) ==
    dbscanFrom(ds, eps, minPts, 1, [visited |-> {}, assigned |-> {}, clusters |-> <<>>])

(***************************************************************************)
(* clusterLocations.                                                       *)
(***************************************************************************)
\* _.first and _.last of the track points: nothing for an empty track.
endPoints(m) ==
    IF m.trackPoints = <<>> THEN <<>>
    ELSE <<m.trackPoints[1], m.trackPoints[Len(m.trackPoints)]>>

\* _.pick(m, ['lat', 'lon'])
pickLatLon(m) == [lat |-> m.lat, lon |-> m.lon]

\* The uniqBy iteratee without the separator.
uniqKeyNoComma(m) == numberToString(m.lat) \o numberToString(m.lon)

\* The uniqBy iteratee: _.values(m).join(',')
uniqKey(m) == join(<<numberToString(m.lat), numberToString(m.lon)>>, <<",">>)

\* _.uniqBy: the first element of every key, in order.
RECURSIVE uniqByKey(_, _)
uniqByKey(s, seen) ==
    IF s = <<>> THEN <<>>
    ELSE IF uniqKey(Head(s)) \in seen THEN uniqByKey(Tail(s), seen)
    ELSE <<Head(s)>> \o uniqByKey(Tail(s), seen \cup {uniqKey(Head(s))})

isMove(s) == s.type = "move"

\* The chain of lines 66-72.
buildDataset(segs) ==
    LET moves == SelectSeq(segs, isMove)
        ends == Flatten([k \in 1..Len(moves) |-> endPoints(moves[k])])
        picked == [k \in 1..Len(ends) |-> pickLatLon(ends[k])]
    IN  uniqByKey(picked, {})

\* The chain of lines 66-72 with the uniqBy step left out.
buildDatasetNoUniq(segs) ==
    LET moves == SelectSeq(segs, isMove)
        ends == Flatten([k \in 1..Len(moves) |-> endPoints(moves[k])])
    IN  [k \in 1..Len(ends) |-> pickLatLon(ends[k])]

clusterResult(ds, found) ==
    [dataset |-> ds,
     groups  |-> found,
     points  |-> [g \in 1..Len(found) |->
                     [k \in 1..Len(found[g]) |-> ds[found[g][k]]]]]

\* clusterLocations with the two tuning arguments in each other's place.
clusterLocationsSwapped(segs, opts) ==
    LET ds == buildDataset(segs)
    IN  clusterResult(ds, dbscanRun(ds, opts.minPoints, opts.epsilon))

\* clusterLocations over a Dataset that was not deduplicated.
clusterLocationsNoUniq(segs, opts) ==
    LET ds == buildDatasetNoUniq(segs)
    IN  clusterResult(ds, dbscanRun(ds, opts.epsilon, opts.minPoints))

clusterLocations(segs, opts) ==
    LET ds == buildDataset(segs)
    IN  clusterResult(ds, dbscanRun(ds, opts.epsilon, opts.minPoints))

(***************************************************************************)
(* The handler, lines 34-38: load, filter by activity, cluster.            *)
(***************************************************************************)
filterActivity(segs, activity) ==
    LET same(s) == s.activity = activity
    IN  IF activity = "" THEN segs ELSE SelectSeq(segs, same)

Cluster ==
    /\ pc = "cluster"
    /\ LET kept == filterActivity(segments, options.activity)
           r == clusterLocations(kept, options)
       IN  /\ segments' = kept
           /\ dataset' = r.dataset
           /\ groups' = r.groups
           /\ controlPoints' = r.points
    /\ pc' = "sort"
    /\ UNCHANGED <<options, pending, ranked, clusters, squares>>

(***************************************************************************)
(* The handler, lines 39-40: _.sortBy(points => -points.length).  lodash   *)
(* sorts stably: elements of equal key keep their order.                   *)
(***************************************************************************)
\* The iteratee: the size of a cluster times `sign`.
sizeKey(points, sign) == sign * Len(points)

\* x put behind every element whose key is not greater than its own.
RECURSIVE insertByKey(_, _, _)
insertByKey(sorted, x, sign) ==
    IF sorted = <<>> THEN <<x>>
    ELSE IF sizeKey(x, sign) < sizeKey(Head(sorted), sign) THEN <<x>> \o sorted
    ELSE <<Head(sorted)>> \o insertByKey(Tail(sorted), x, sign)

RECURSIVE stableSortBy(_, _)
stableSortBy(s, sign) ==
    IF s = <<>> THEN <<>>
    ELSE insertByKey(stableSortBy(SubSeq(s, 1, Len(s) - 1), sign), s[Len(s)], sign)

\* The sort with the sign of the key lost: ascending sizes.
sortBySizeAscending(groupsOfPoints) == stableSortBy(groupsOfPoints, 1)

sortBySize(groupsOfPoints) == stableSortBy(groupsOfPoints, -1)

SortClusters ==
    /\ pc = "sort"
    /\ pending' = sortBySize(controlPoints)
    /\ pc' = "label"
    /\ UNCHANGED <<segments, options, dataset, groups, controlPoints, ranked,
                   clusters, squares>>

(***************************************************************************)
(* lookupLabel, lines 172-196.  What the geocoding request does is the     *)
(* environment's choice: `transport` is a request that fails (request()    *)
(* throws), `unparsable` a body that is not JSON (JSON.parse throws),      *)
(* otherwise a parsed answer with its status and, under OK, the long       *)
(* names of the first locality and of the first administrative area,       *)
(* empty when the answer has none.                                         *)
(***************************************************************************)
Cities == {<<>>, <<"A", "b">>}

Regions == {<<>>, <<"B">>}

Responses ==
    [kind : {"OK"}, city : Cities, region : Regions]
        \cup [kind : {"ZERO_RESULTS", "unparsable", "transport"},
              city : {<<>>}, region : {<<>>}]

\* _.filter(array): the truthy elements; the empty string is not.
truthy(parts) ==
    LET nonEmpty(t) == t # <<>>
    IN  SelectSeq(parts, nonEmpty)

lookupLabel(points, response) ==
    IF response.kind \in {"transport", "unparsable"}
    THEN [threw |-> TRUE, value |-> <<>>]
    ELSE IF response.kind = "OK"
    THEN [threw |-> FALSE,
          value |-> join(truthy(<<response.city, response.region>>), <<",", " ">>)]
    ELSE [threw |-> FALSE, value |-> <<>>]

\* The handler, lines 41-45: the map over the sorted clusters, one element
\* a step.  An exception of lookupLabel leaves the handler.
LookupLabel ==
    /\ pc = "label"
    /\ pending # <<>>
    /\ \E response \in Responses :
           LET r == lookupLabel(Head(pending), response)
           IN  IF r.threw
               THEN /\ pc' = "threw"
                    /\ UNCHANGED <<pending, ranked>>
               ELSE /\ ranked' = Append(ranked,
                                    [label |-> r.value, controlPoints |-> Head(pending)])
                    /\ pending' = Tail(pending)
                    /\ pc' = pc
    /\ UNCHANGED <<segments, options, dataset, groups, controlPoints, clusters, squares>>

(***************************************************************************)
(* The handler, lines 47-52: the label filter, then _.take.                *)
(***************************************************************************)
matchesFilter(c, flt) == indexOf(toLowerCase(c.label), toLowerCase(flt)) > -1

\* _.take(array, n): the first n elements, none for n <= 0.
take(s, n) == IF n <= 0 THEN <<>> ELSE SubSeq(s, 1, Min(n, Len(s)))

\* The two steps in the other order.
takeThenFilter(cs, opts) ==
    LET keep(c) == matchesFilter(c, opts.filter)
        taken == take(cs, opts.limit)
    IN  IF opts.filter # <<>> THEN SelectSeq(taken, keep) ELSE taken

filterThenTake(cs, opts) ==
    LET keep(c) == matchesFilter(c, opts.filter)
        filtered == IF opts.filter # <<>> THEN SelectSeq(cs, keep) ELSE cs
    IN  take(filtered, opts.limit)

FilterAndTake ==
    /\ pc = "label"
    /\ pending = <<>>
    /\ clusters' = filterThenTake(ranked, options)
    /\ pc' = "draw"
    /\ UNCHANGED <<segments, options, dataset, groups, controlPoints, pending,
                   ranked, squares>>

(***************************************************************************)
(* computeSquareDimensions, lines 80-102.                                  *)
(*                                                                         *)
(* side / Math.sqrt(height * width / count) is the square root of          *)
(* side * count / other, so its ceiling is the least k >= 1 with           *)
(* k * k * other >= side * count.  The code computes the quotient in       *)
(* floating point: when the true quotient is a whole number k the computed *)
(* one may come out just above k, and its ceiling is then k + 1 (height    *)
(* 31, width 31, count 9 gives 4, not 3).  That cannot happen when         *)
(* height * width / count is the square of a whole number, for then the    *)
(* division, the root and the quotient are all exact.  `rounding` is what  *)
(* the floating point unit adds on either axis.                            *)
(***************************************************************************)
ceilOfQuotient(side, other, count) ==
    CHOOSE k \in 1..(side * count) :
        /\ k * k * other >= side * count
        /\ \A j \in 1..(k - 1) : j * j * other < side * count

quotientIsWhole(side, other, count) ==
    \E k \in 1..(side * count) : k * k * other = side * count

maxSquareIsWhole(count, opts) ==
    \E m \in 1..(opts.height * opts.width) : m * m * count = opts.height * opts.width

Roundings(count, opts) ==
    {r \in [h : 0..1, w : 0..1] :
        /\ r.h = 1 => /\ quotientIsWhole(opts.height, opts.width, count)
                      /\ ~maxSquareIsWhole(count, opts)
        /\ r.w = 1 => /\ quotientIsWhole(opts.width, opts.height, count)
                      /\ ~maxSquareIsWhole(count, opts)}

\* Math.floor(side / Math.ceil(side / maxSquare))
shrunkSide(side, other, count, up) == side \div (ceilOfQuotient(side, other, count) + up)

\* Math.ceil in the place of Math.floor.
shrunkSideCeil(side, other, count, up) ==
    LET k == ceilOfQuotient(side, other, count) + up
    IN  (side + k - 1) \div k

\* The square of tile `index` for a given side.  With size 0 `across` is
\* Infinity in JavaScript: index / Infinity is 0 and index % Infinity is index.
squareOfSize(index, size, opts) ==
    LET row == IF size = 0 THEN 0 ELSE index \div (opts.width \div size)
        column == IF size = 0 THEN index ELSE index % (opts.width \div size)
    IN  [row |-> row, column |-> column, x |-> column * size, y |-> row * size,
         size |-> size]

\* The sides rounded up where the code rounds down.
computeSquareDimensionsCeil(index, count, opts, rounding) ==
    squareOfSize(index,
                 Min(shrunkSideCeil(opts.height, opts.width, count, rounding.h),
                     shrunkSideCeil(opts.width, opts.height, count, rounding.w)),
                 opts)

\* The area shared among one tile more than there are.
computeSquareDimensionsOneMore(index, count, opts, rounding) ==
    squareOfSize(index,
                 Min(shrunkSide(opts.height, opts.width, count + 1, 0),
                     shrunkSide(opts.width, opts.height, count + 1, 0)),
                 opts)

\* y taken from the column.
computeSquareDimensionsColumnY(index, count, opts, rounding) ==
    LET sq == squareOfSize(index,
                  Min(shrunkSide(opts.height, opts.width, count, rounding.h),
                      shrunkSide(opts.width, opts.height, count, rounding.w)),
                  opts)
    IN  [sq EXCEPT !.y = sq.column * sq.size]

computeSquareDimensions(index, count, opts, rounding) ==
    squareOfSize(index,
                 Min(shrunkSide(opts.height, opts.width, count, rounding.h),
                     shrunkSide(opts.width, opts.height, count, rounding.w)),
                 opts)

\* The handler, lines 54-59: a square for every surviving cluster.
DrawSquares ==
    /\ pc = "draw"
    /\ IF clusters = <<>>
       THEN squares' = <<>>
       ELSE \E rounding \in Roundings(Len(clusters), options) :
                squares' = [k \in 1..Len(clusters) |->
                               computeSquareDimensions(k - 1, Len(clusters), options,
                                                       rounding)]
    /\ pc' = "write"
    /\ UNCHANGED <<segments, options, dataset, groups, controlPoints, pending,
                   ranked, clusters>>

\* The handler, line 61.
WriteOutput ==
    /\ pc = "write"
    /\ pc' = "done"
    /\ UNCHANGED <<segments, options, dataset, groups, controlPoints, pending,
                   ranked, clusters, squares>>

(***************************************************************************)
(* Inputs.                                                                 *)
(***************************************************************************)
Point(la, lo) == [lat |-> la, lon |-> lo]

Activities == {"walking", "cycling"}

\* A trip through the latitudes of S: the stops in the order of the key
\* (x * stride) modulo a number above every latitude, ties by latitude.
RECURSIVE orderStops(_, _, _)
orderStops(S, stride, modulus) ==
    IF S = {} THEN <<>>
    ELSE LET key(x) == (x * stride) % modulus
             nxt == CHOOSE x \in S : \A y \in S :
                        key(x) < key(y) \/ (key(x) = key(y) /\ x <= y)
         IN  <<nxt>> \o orderStops(S \ {nxt}, stride, modulus)

\* One move from each stop to the next; alone, a stop is a move that stays.
tripSegments(stops) ==
    IF Len(stops) = 0 THEN <<>>
    ELSE IF Len(stops) = 1
    THEN <<[type |-> "move", activity |-> "walking",
            trackPoints |-> <<Point(stops[1], 0)>>]>>
    ELSE [k \in 1..(Len(stops) - 1) |->
             [type |-> "move",
              activity |-> IF k % 2 = 1 THEN "walking" ELSE "cycling",
              trackPoints |-> <<Point(stops[k], 0), Point(stops[k + 1], 0)>>]]

Trips(maxLat, maxStride) ==
    {tripSegments(orderStops(S, stride, maxLat + 3)) :
        S \in SUBSET (0..maxLat), stride \in 1..maxStride}

Options(eps, minPts, lim, flt, act, h, w) ==
    [epsilon |-> eps, minPoints |-> minPts, limit |-> lim, filter |-> flt,
     activity |-> act, height |-> h, width |-> w]

InitRest ==
    /\ dataset = <<>>
    /\ groups = <<>>
    /\ controlPoints = <<>>
    /\ pending = <<>>
    /\ ranked = <<>>
    /\ clusters = <<>>
    /\ squares = <<>>

(***************************************************************************)
(* SpecCluster: clusterLocations over trips, every epsilon and min-points. *)
(***************************************************************************)
InitCluster ==
    /\ pc = "cluster"
    /\ segments \in Trips(MaxLat, MaxStride)
    /\ \E eps \in 1..MaxEps, minPts \in 1..MaxMinPts :
           options = Options(eps, minPts, 0, <<>>, "", 1, 1)
    /\ InitRest

NextCluster == Cluster

SpecCluster == InitCluster /\ [][NextCluster]_vars

(***************************************************************************)
(* SpecDataset: clusterLocations over free-form storylines: segments of    *)
(* either type, tracks of any length up to MaxTrack, points whose          *)
(* coordinates differ only in where the digits fall.                       *)
(***************************************************************************)
FreePoints == {Point(1, 11), Point(11, 1)}

FreeSegments ==
    [type : {"move", "place"}, activity : {"walking"},
     trackPoints : SeqsUpTo(FreePoints, MaxTrack)]

InitDataset ==
    /\ pc = "cluster"
    /\ segments \in SeqsUpTo(FreeSegments, MaxSegs)
    /\ options = Options(MaxEps, 1, 0, <<>>, "", 1, 1)
    /\ InitRest

SpecDataset == InitDataset /\ [][NextCluster]_vars

(***************************************************************************)
(* SpecLayout: the layout loop over every count and canvas.  The state is  *)
(* the one the handler is in at line 54 for a storyline of `count` stops   *)
(* farther than epsilon apart, min-points 1, every lookup unresolved, no   *)
(* filter and a limit that cuts nothing.                                   *)
(***************************************************************************)
InitLayout ==
    /\ pc = "draw"
    /\ \E count \in 1..MaxCount, h \in 1..MaxSide, w \in 1..MaxSide :
           LET opts == Options(1, 1, MaxCount, <<>>, "", h, w)
               segs == tripSegments([k \in 1..count |-> 2 * k])
               r == clusterLocations(segs, opts)
               sorted == sortBySize(r.points)
               labelled == [k \in 1..Len(sorted) |->
                               [label |-> <<>>, controlPoints |-> sorted[k]]]
           IN  /\ options = opts
               /\ segments = segs
               /\ dataset = r.dataset
               /\ groups = r.groups
               /\ controlPoints = r.points
               /\ ranked = labelled
               /\ clusters = filterThenTake(labelled, opts)
    /\ pending = <<>>
    /\ squares = <<>>

NextLayout == DrawSquares \/ WriteOutput

SpecLayout == InitLayout /\ [][NextLayout]_vars

(***************************************************************************)
(* Spec: the handler from the loaded storyline to the written output.      *)
(***************************************************************************)
Filters == {<<>>, <<"a">>, <<"B">>}

Canvases == {<<1, 1>>, <<2, 3>>}

Init ==
    /\ pc = "cluster"
    /\ segments \in Trips(MaxTown, 1)
    /\ \E minPts \in 1..2, lim \in 0..MaxLimit, flt \in Filters,
          act \in {"", "walking"}, canvas \in Canvases :
           options = Options(1, minPts, lim, flt, act, canvas[1], canvas[2])
    /\ InitRest

Next ==
    \/ Cluster
    \/ SortClusters
    \/ LookupLabel
    \/ FilterAndTake
    \/ DrawSquares
    \/ WriteOutput

Spec == Init /\ [][Next]_vars

(***************************************************************************)
(* Vocabulary of the clustering claims, over the state clusterLocations    *)
(* leaves behind.                                                          *)
(***************************************************************************)
Clustered == pc # "cluster"

Indices == 1..Len(dataset)

Near(p, q) == distance(dataset[p], dataset[q]) <= options.epsilon

Neighbourhood(p) == {q \in Indices : Near(p, q)}

Core(p) == Cardinality(Neighbourhood(p)) >= options.minPoints

Members(g) == Range(groups[g])

ClaimedBefore(g) == UNION {Members(h) : h \in 1..(g - 1)}

Grouped == UNION {Members(g) : g \in DOMAIN groups}

\* C4 as stated: every group returned by the density clustering has at
\* least min-points members.
C4_EveryGroupHasMinPoints ==
    Clustered => \A g \in DOMAIN groups : Len(groups[g]) >= options.minPoints

\* C4 as amended: every group is non-empty and begins with a core point,
\* and its size is at least min-points less the number of that point's
\* neighbours that earlier groups had claimed; so the first group, and any
\* group whose seed shares no neighbour with earlier groups, has at least
\* min-points members.
C4_GroupSizeUpToClaimed ==
    Clustered =>
        \A g \in DOMAIN groups :
            /\ Len(groups[g]) >= 1
            /\ groups[g][1] \in Indices
            /\ Core(groups[g][1])
            /\ Len(groups[g])
                  + Cardinality(Neighbourhood(groups[g][1]) \cap ClaimedBefore(g))
                    >= options.minPoints

\* A later group left short of min-points by an earlier group's claim.
C4_Witness ==
    /\ Clustered
    /\ \E g \in DOMAIN groups :
           /\ Len(groups[g]) < options.minPoints
           /\ Neighbourhood(groups[g][1]) \cap ClaimedBefore(g) # {}

\* C5: the groups are pairwise disjoint: no Dataset point, by index or by
\* coordinates, is in two groups or twice in one group, and every member
\* is an index of the Dataset.
C5_GroupsDisjoint ==
    Clustered =>
        /\ \A g \in DOMAIN groups : \A k \in DOMAIN groups[g] :
               /\ groups[g][k] \in Indices
               /\ controlPoints[g][k] = dataset[groups[g][k]]
        /\ \A g, h \in DOMAIN groups :
               \A k \in DOMAIN groups[g], l \in DOMAIN groups[h] :
                   (g # h \/ k # l) =>
                       /\ groups[g][k] # groups[h][l]
                       /\ controlPoints[g][k] # controlPoints[h][l]

\* Two groups, and a point that is not core within epsilon of a core point
\* of each: both clusters reach it, one holds it.
C5_Witness ==
    /\ Clustered
    /\ \E g, h \in DOMAIN groups :
           /\ g # h
           /\ \E b \in Indices :
                  /\ ~Core(b)
                  /\ \E c \in Members(g) : Core(c) /\ Near(c, b)
                  /\ \E c \in Members(h) : Core(c) /\ Near(c, b)

\* C10: a point is in some group exactly when it is a core point or lies
\* within epsilon of one; noise is in no group; and every member of a group
\* but its first was reached from a core point that the group already held,
\* never through a point that is not core.
C10_MembershipIsCoreOrBorder ==
    Clustered =>
        /\ \A p \in Indices :
               p \in Grouped <=> (Core(p) \/ \E c \in Indices : Core(c) /\ Near(c, p))
        /\ \A g \in DOMAIN groups :
               /\ Core(groups[g][1])
               /\ \A k \in 2..Len(groups[g]) :
                      \E j \in 1..(k - 1) :
                          Core(groups[g][j]) /\ Near(groups[g][j], groups[g][k])

\* A group with a border point whose own neighbourhood reaches a point the
\* group does not hold, beside a point that is noise.
C10_Witness ==
    /\ Clustered
    /\ \E p \in Indices : p \notin Grouped
    /\ \E g \in DOMAIN groups : \E b \in Members(g) :
           /\ ~Core(b)
           /\ \E q \in Neighbourhood(b) : q \notin Members(g)

(***************************************************************************)
(* The Dataset claim.                                                      *)
(***************************************************************************)
\* The end point positions of the moves: segment k, end 1 (first track
\* point) or 2 (last), of the moves that have track points.
EndPositions ==
    {pos \in (DOMAIN segments) \X {1, 2} :
        /\ segments[pos[1]].type = "move"
        /\ segments[pos[1]].trackPoints # <<>>}

EndPointAt(pos) ==
    LET track == segments[pos[1]].trackPoints
        tp == IF pos[2] = 1 THEN track[1] ELSE track[Len(track)]
    IN  [lat |-> tp.lat, lon |-> tp.lon]

Before(pos, other) ==
    pos[1] < other[1] \/ (pos[1] = other[1] /\ pos[2] <= other[2])

FirstPositionOf(point) ==
    CHOOSE pos \in EndPositions :
        /\ EndPointAt(pos) = point
        /\ \A other \in EndPositions : EndPointAt(other) = point => Before(pos, other)

\* C9: the Dataset holds only first and last track points of moves, no
\* (lat, lon) pair twice, every distinct such end point, and in the order
\* of first occurrence (segment order, first end before last end).
C9_DatasetIsDistinctEndpoints ==
    Clustered =>
        /\ \A i \in Indices : \E pos \in EndPositions : dataset[i] = EndPointAt(pos)
        /\ \A i, j \in Indices :
               i # j => (dataset[i].lat # dataset[j].lat \/ dataset[i].lon # dataset[j].lon)
        /\ \A pos \in EndPositions : \E i \in Indices : dataset[i] = EndPointAt(pos)
        /\ \A i, j \in Indices :
               i < j => /\ FirstPositionOf(dataset[i]) # FirstPositionOf(dataset[j])
                        /\ Before(FirstPositionOf(dataset[i]), FirstPositionOf(dataset[j]))

\* A storyline with a segment that is no move, and a move that leaves an
\* end point, passes a point that is no end point of any move, and comes
\* back: two end positions, one entry, and the point passed is not in it.
C9_Witness ==
    /\ Clustered
    /\ Len(dataset) < Cardinality(EndPositions)
    /\ \E k \in DOMAIN segments :
           segments[k].type # "move" /\ segments[k].trackPoints # <<>>
    /\ \E k \in DOMAIN segments :
           /\ segments[k].type = "move"
           /\ Len(segments[k].trackPoints) = 3
           /\ segments[k].trackPoints[2] \notin Range(dataset)

(***************************************************************************)
(* The layout claims.                                                      *)
(***************************************************************************)
LaidOut == pc \in {"write", "done"}

Count == Len(clusters)

\* C1: every tile lies inside the canvas.
C1_TilesInsideCanvas ==
    LaidOut =>
        /\ Len(squares) = Count
        /\ \A k \in DOMAIN squares :
               /\ squares[k].x >= 0
               /\ squares[k].y >= 0
               /\ squares[k].x + squares[k].size <= options.width
               /\ squares[k].y + squares[k].size <= options.height

\* A layout of several rows and columns that reaches the bottom edge.
C1_Witness ==
    /\ LaidOut
    /\ Count >= 3
    /\ \E k \in DOMAIN squares :
           /\ squares[k].row >= 1
           /\ squares[k].column >= 1
           /\ squares[k].y + squares[k].size = options.height
           /\ squares[k].size >= 2

\* C2 as stated: the tile side is strictly positive, and across is a whole
\* number >= 1.
C2_SizePositive ==
    LaidOut =>
        \A k \in DOMAIN squares :
            squares[k].size > 0 /\ options.width \div squares[k].size >= 1

\* C2 as amended: the tile side is never negative, and it is strictly
\* positive (with across a whole number >= 1) exactly when count <=
\* height * width; with more tiles than that the side is 0.
C2_SizePositiveIffRoom ==
    LaidOut =>
        \A k \in DOMAIN squares :
            /\ squares[k].size >= 0
            /\ squares[k].size > 0 <=> Count <= options.height * options.width
            /\ squares[k].size > 0 => options.width \div squares[k].size >= 1

\* More tiles than the canvas has room for, and a side of 0.
C2_Witness ==
    /\ LaidOut
    /\ Count > options.height * options.width
    /\ \E k \in DOMAIN squares : squares[k].size = 0

\* C3: two distinct tiles have the same size, distinct (row, column) pairs
\* and squares [x, x+size) x [y, y+size) that do not overlap; every tile is
\* at x = column * size, y = row * size.
C3_TilesDoNotOverlap ==
    LaidOut =>
        /\ \A k \in DOMAIN squares :
               /\ squares[k].x = squares[k].column * squares[k].size
               /\ squares[k].y = squares[k].row * squares[k].size
        /\ \A k, l \in DOMAIN squares :
               k # l =>
                   /\ squares[k].size = squares[l].size
                   /\ <<squares[k].row, squares[k].column>>
                          # <<squares[l].row, squares[l].column>>
                   /\ ~ \E px \in 0..options.width, py \in 0..options.height :
                          /\ squares[k].x <= px /\ px < squares[k].x + squares[k].size
                          /\ squares[k].y <= py /\ py < squares[k].y + squares[k].size
                          /\ squares[l].x <= px /\ px < squares[l].x + squares[l].size
                          /\ squares[l].y <= py /\ py < squares[l].y + squares[l].size

\* Tiles of positive size in two rows and two columns.
C3_Witness ==
    /\ LaidOut
    /\ \E k, l \in DOMAIN squares :
           /\ squares[k].size > 0
           /\ squares[k].row # squares[l].row
           /\ squares[k].column # squares[l].column
    /\ \E k, l \in DOMAIN squares :
           k # l /\ squares[k].row = squares[l].row

(***************************************************************************)
(* The ranking claims.                                                     *)
(***************************************************************************)
Sorted == pc \notin {"cluster", "sort"}

Selected == pc \in {"draw", "write", "done"}

\* The place of a cluster in the order in which clustering found it.
Discovery(points) == CHOOSE g \in DOMAIN controlPoints : controlPoints[g] = points

PointsOf(cs) == [k \in DOMAIN cs |-> cs[k].controlPoints]

RankOrdered(ps) ==
    \A a, b \in DOMAIN ps :
        a < b => /\ ps[a] \in Range(controlPoints)
                 /\ ps[b] \in Range(controlPoints)
                 /\ Len(ps[a]) >= Len(ps[b])
                 /\ Len(ps[a]) = Len(ps[b]) => Discovery(ps[a]) < Discovery(ps[b])

\* C6: the ranked clusters are in order of non-increasing number of points,
\* clusters of equal size in their order of discovery; so before labelling,
\* after it, and after the filter and the truncation.
C6_RankedBySizeStable ==
    /\ Sorted => RankOrdered(PointsOf(ranked) \o pending)
    /\ (pc = "label" /\ ranked = <<>>) => Len(pending) = Len(controlPoints)
    /\ Selected => RankOrdered(PointsOf(clusters))

\* A run whose sort moved a larger cluster ahead of one found earlier,
\* whose filter dropped a cluster, and whose result holds two of one size.
C6_Witness ==
    /\ pc = "done"
    /\ options.filter # <<>>
    /\ Len(clusters) < Len(ranked)
    /\ \E g, h \in DOMAIN controlPoints :
           g < h /\ Len(controlPoints[g]) < Len(controlPoints[h])
    /\ \E a, b \in DOMAIN clusters :
           a < b /\ Len(clusters[a].controlPoints) = Len(clusters[b].controlPoints)

\* s holds t, letter case aside.
ContainsFolded(s, t) ==
    \E o \in 0..(Len(s) - Len(t)) :
        \A i \in 1..Len(t) : lowerChar(s[o + i]) = lowerChar(t[i])

Matching ==
    {i \in DOMAIN ranked :
        options.filter = <<>> \/ ContainsFolded(ranked[i].label, options.filter)}

NthMatching(n) ==
    CHOOSE i \in Matching : Cardinality({j \in Matching : j <= i}) = n

\* C7: the clusters that reach the layout are the first `limit` of the
\* sorted clusters that pass the label filter, in their order: the filter
\* comes before the truncation, an empty label passes no filter, and limit
\* 0 leaves nothing.
C7_FilterThenLimit ==
    Selected =>
        /\ Len(clusters) = Min(options.limit, Cardinality(Matching))
        /\ \A n \in DOMAIN clusters : clusters[n] = ranked[NthMatching(n)]
        /\ options.filter # <<>> => \A n \in DOMAIN clusters : clusters[n].label # <<>>
        /\ options.limit = 0 => clusters = <<>>

\* A run with a filter in the other letter case than the label it passes,
\* where a cluster among the first `limit` was dropped for its label, one
\* with an empty label too, and a later cluster took the place.
C7_Witness ==
    /\ Selected
    /\ options.filter # <<>>
    /\ Len(clusters) = options.limit
    /\ \E i \in DOMAIN ranked :
           /\ i \notin Matching
           /\ i <= options.limit
           /\ \E j \in Matching : j > options.limit
    /\ \E i \in DOMAIN ranked : ranked[i].label = <<>>
    /\ \E n \in DOMAIN clusters : indexOf(clusters[n].label, options.filter) = -1

\* C8: lookupLabel never raises, whatever the lookup does: on every outcome
\* that is no match it returns the empty string and the handler goes on to
\* rank and render, so the handler is never left by an exception.
C8_LookupNeverRaises == pc # "threw"

====
